---- MODULE Spec2Model ----
(***************************************************************************)
(* Jache SmartProfiler (src/src/core/smart-profiler.js): the registry, the *)
(* per-function instrumentation wrapper, the memoizing callee, the purity  *)
(* heuristic and the histogram.                                            *)
(*                                                                         *)
(* Representation.  Durations and minTimeMs are whole milliseconds.        *)
(* Percentiles are kept in hundredths (0.95 is 95), so that                *)
(* Math.floor(len * p) is (len * p) \div 100.  The JavaScript value        *)
(* undefined, where a number is expected (an absent option, an array read  *)
(* past the end), is Undefined; all real numbers of the model are >= 0.    *)
(* The percentiles used (0, 0.5, 0.95, 1.0) and the durations used make    *)
(* every floating-point product and quotient of the code exact.            *)
(*                                                                         *)
(* env and last are history variables: the code does not hold them.  env   *)
(* records per wrapper what its timer last measured, how many calls        *)
(* returned and threw, how often the underlying function was invoked, and  *)
(* the override stored under the name when the wrapper was created; last   *)
(* records the latest operation and its outcome.                           *)
(***************************************************************************)
EXTENDS Integers, Sequences, FiniteSets, TLC

VARIABLES
    registry,   \* registry id -> the fields of one SmartProfiler instance
    wrappers,   \* sequence of the closures created by profile()
    env,        \* per wrapper: what the environment did (timer, invocations)
    last,       \* the operation that led to this state and its outcome
    frames      \* the calls of wrappers that have not returned, innermost last

vars == <<registry, wrappers, env, last, frames>>

-----------------------------------------------------------------------------
(* Bounds of the model *)

\* calls of one wrapper that complete (callTimes grows without bound in the code)
MaxCalls == 103
\* how often the measured duration of one wrapper's calls may change
MaxSwitches == 1
\* calls of one wrapper that throw
MaxThrows == 2

\* durations (ms) performance.now() differences are drawn from
Durations == {1, 2}

\* length of the sample sequences and number of bins buildHistogram is
\* applied to directly
MaxSamples == 4
MaxBins == 4
\* the samples of those sequences
HistogramSamples == {1, 2, 3, 5, 8}

-----------------------------------------------------------------------------
(* JavaScript values *)

Undefined == -1

Num(n) == [t |-> "number", n |-> n]
Str(s) == [t |-> "string", s |-> s]
Arr(items) == [t |-> "array", items |-> items]
NaN == [t |-> "NaN"]
Null == [t |-> "null"]
Undef == [t |-> "undefined"]
FnValue == [t |-> "function"]

\* typeof x
TypeOf(x) ==
    CASE x.t = "NaN" -> "number"
      [] x.t = "null" -> "object"
      [] x.t = "array" -> "object"
      [] OTHER -> x.t

\* x || y on numbers: 0 and undefined are falsy
Or(x, y) == IF x # Undefined /\ x # 0 THEN x ELSE y

\* a > b on numbers; any comparison with undefined (NaN after ToNumber) is false
Gt(a, b) == a # Undefined /\ b # Undefined /\ a > b

\* arr[i], zero-based; a read outside the array is undefined
At(arr, i) == IF i + 1 \in DOMAIN arr THEN arr[i + 1] ELSE Undefined

\* args[i] of a rest parameter list, zero-based
Arg(args, i) == IF i + 1 \in DOMAIN args THEN args[i + 1] ELSE Undef

RECURSIVE Join(_)
\* items.join(",")
Join(items) ==
    IF Len(items) = 0 THEN ""
    ELSE IF Len(items) = 1 THEN items[1]
    ELSE items[1] \o "," \o Join(Tail(items))

RECURSIVE Stringify(_)
\* JSON.stringify of a value that is an array or an element of an array
Stringify(x) ==
    CASE x.t = "number" -> ToString(x.n)
      [] x.t = "string" -> "\"" \o x.s \o "\""
      [] x.t = "array" ->
            "[" \o Join([i \in DOMAIN x.items |-> Stringify(x.items[i])]) \o "]"
      [] OTHER -> "null"      \* NaN, null, undefined and functions

-----------------------------------------------------------------------------
(* The functions handed to profile(), with the text fn.toString() gives *)

FnNames == {"typeSafeAdd", "deadCodeFunction", "createLargeArray", "fibonacciWithMemo"}

\* fn.toString(): the text of the definition, line breaks written as spaces
FnSource(fn) ==
    CASE fn = "typeSafeAdd" ->
            "function typeSafeAdd(a, b) { if (typeof a === 'number' && typeof b === 'number') { return a + b; } return 0; }"
      [] fn = "deadCodeFunction" ->
            "function deadCodeFunction(x) { if (false) { console.log('This will never execute'); } return x * 2; }"
      [] fn = "createLargeArray" ->
            "function createLargeArray(size) { const arr = new Array(size); for (let i = 0; i < size; i++) { arr[i] = i * 2; } return arr; }"
      [] fn = "fibonacciWithMemo" ->
            "function fibonacciWithMemo(n) { if (n <= 1) return n; return fibonacciWithMemo(n - 1) + fibonacciWithMemo(n - 2); }"

Return(v) == [kind |-> "return", value |-> v]
Throw(e) == [kind |-> "throw", value |-> Str(e)]

RECURSIVE Fib(_)
Fib(n) == IF n <= 1 THEN n ELSE Fib(n - 1) + Fib(n - 2)

\* fn(...args): the value returned or the error thrown
Apply(fn, args) ==
    LET a == Arg(args, 0)
        b == Arg(args, 1)
    IN  CASE fn = "typeSafeAdd" ->
                IF TypeOf(a) = "number" /\ TypeOf(b) = "number"
                THEN IF a.t = "NaN" \/ b.t = "NaN" THEN Return(NaN)
                     ELSE Return(Num(a.n + b.n))
                ELSE Return(Num(0))
          [] fn = "deadCodeFunction" ->
                IF a.t = "number" THEN Return(Num(a.n * 2)) ELSE Return(NaN)
          [] fn = "createLargeArray" ->
                IF a.t = "number" /\ a.n < 0 THEN Throw("RangeError")
                ELSE IF a.t = "number"
                     THEN Return(Arr([i \in 1..a.n |-> Num((i - 1) * 2)]))
                     ELSE Return(Arr(<<a>>))
          [] fn = "fibonacciWithMemo" ->
                IF a.t = "number" THEN Return(Num(Fib(a.n))) ELSE Return(a)

\* the argument lists each function is called with
ArgLists(fn) ==
    CASE fn = "typeSafeAdd" ->
            {<<Num(2), Num(3)>>, <<Num(3), Num(2)>>, <<Str("2"), Num(3)>>,
             <<NaN, Num(3)>>, <<Null, Num(3)>>, <<Undef, Num(3)>>,
             <<FnValue, Num(3)>>}
      [] fn = "deadCodeFunction" -> {<<Num(1)>>}
      [] fn = "createLargeArray" -> {<<Num(1)>>, <<Num(-1)>>}
      [] fn = "fibonacciWithMemo" -> {<<Num(5)>>}

-----------------------------------------------------------------------------
(* Static helpers of SmartProfiler *)

Denylist ==
    {"console.", "Math.random", "Date.now", "fetch", "localStorage",
     "setTimeout", "setInterval"}

\* the alternative matched with its dot not escaped, so that the dot stands
\* for any character (faulty variant of Occurs)
OccursUnescaped(tok, src) ==
    \E i \in 1..(Len(src) - Len(tok) + 1) :
        \A k \in 1..Len(tok) :
            SubSeq(tok, k, k) \in {".", SubSeq(src, i + k - 1, i + k - 1)}

\* one alternative of the pattern matches somewhere in src; the dots of
\* the pattern are escaped, so an alternative matches its own text only
Occurs(tok, src) ==
    \E i \in 1..(Len(src) - Len(tok) + 1) :
        SubSeq(src, i, i + Len(tok) - 1) = tok

\* !/console\.|Math\.random|...|setInterval/.test(src)
isPureText(src) == ~\E tok \in Denylist : Occurs(tok, src)

\* the functions of the model whose text passes the test
PureFns == {fn \in FnNames : isPureText(FnSource(fn))}

\* isPure(fn)
isPure(fn) == fn \in PureFns

MinOf(a, b) == IF a < b THEN a ELSE b

SeqMin(arr) == CHOOSE v \in {arr[i] : i \in DOMAIN arr} :
                  \A j \in DOMAIN arr : v <= arr[j]
SeqMax(arr) == CHOOSE v \in {arr[i] : i \in DOMAIN arr} :
                  \A j \in DOMAIN arr : v >= arr[j]

\* the bucket index not clamped to bins - 1, the count at index bins being
\* no bucket (faulty variant of buildHistogram)
buildHistogramUnclamped(arr, bins) ==
    IF Len(arr) = 0 THEN [i \in 1..bins |-> 0]
    ELSE LET min == SeqMin(arr)
             max == SeqMax(arr)
             idx(v) == ((v - min) * bins) \div (max - min)
         IN  IF min = max THEN <<Len(arr)>>
             ELSE [i \in 1..bins |->
                      Cardinality({j \in DOMAIN arr : idx(arr[j]) = i - 1})]

\* equal samples counted in the first of bins buckets
\* (faulty variant of buildHistogram)
buildHistogramNoSingle(arr, bins) ==
    IF Len(arr) = 0 THEN [i \in 1..bins |-> 0]
    ELSE LET min == SeqMin(arr)
             max == SeqMax(arr)
             idx(v) == IF min = max THEN 0
                       ELSE MinOf(bins - 1,
                                  ((v - min) * bins) \div (max - min))
         IN  [i \in 1..bins |->
                 Cardinality({j \in DOMAIN arr : idx(arr[j]) = i - 1})]

\* buildHistogram(arr, bins).  For the samples and bin counts of the model
\* Math.floor((v - min) / step) in floating point is the floor of the exact
\* quotient, except that the maximum may give bins - 1 where the exact
\* quotient is bins: Math.min(bins - 1, ...) makes both the same bucket.
buildHistogram(arr, bins) ==
    IF Len(arr) = 0 THEN [i \in 1..bins |-> 0]
    ELSE LET min == SeqMin(arr)
             max == SeqMax(arr)
             \* Math.floor((v - min) / step) with step = (max - min) / bins
             idx(v) == MinOf(bins - 1, ((v - min) * bins) \div (max - min))
         IN  IF min = max THEN <<Len(arr)>>
             ELSE [i \in 1..bins |->
                      Cardinality({j \in DOMAIN arr : idx(arr[j]) = i - 1})]

\* the samples left in call order (faulty variant of SortAscending)
Unsorted(arr) == arr

\* [...callTimes].sort((a, b) => a - b)
SortAscending(arr) == SortSeq(arr, LAMBDA a, b : a < b)

EmptyMap == <<>>

\* Boolean(x)
Truthy(x) ==
    CASE x.t = "number" -> x.n # 0
      [] x.t = "string" -> x.s # ""
      [] x.t \in {"NaN", "null", "undefined"} -> FALSE
      [] OTHER -> TRUE

\* the cache tested with cache.get(key) instead of cache.has(key)
\* (faulty variant of memoized)
memoizedTruthy(fn, cache, args) ==
    LET key == Stringify(Arr(args))
    IN  IF key \in DOMAIN cache /\ Truthy(cache[key])
        THEN [outcome |-> Return(cache[key]), cache |-> cache, invoked |-> FALSE]
        ELSE LET res == Apply(fn, args)
             IN  [outcome |-> res,
                  cache |-> IF res.kind = "return"
                            THEN (key :> res.value) @@ cache
                            ELSE cache,
                  invoked |-> TRUE]

\* the result returned without cache.set (faulty variant of memoized)
memoizedNoStore(fn, cache, args) ==
    LET key == Stringify(Arr(args))
    IN  IF key \in DOMAIN cache
        THEN [outcome |-> Return(cache[key]), cache |-> cache, invoked |-> FALSE]
        ELSE [outcome |-> Apply(fn, args), cache |-> cache, invoked |-> TRUE]

\* the key of a miss stored before fn is invoked, so that an invocation that
\* throws leaves an entry behind (faulty variant of memoized)
memoizedStoreFirst(fn, cache, args) ==
    LET key == Stringify(Arr(args))
    IN  IF key \in DOMAIN cache
        THEN [outcome |-> Return(cache[key]), cache |-> cache, invoked |-> FALSE]
        ELSE LET res == Apply(fn, args)
             IN  [outcome |-> res,
                  cache |-> IF res.kind = "return"
                            THEN (key :> res.value) @@ cache
                            ELSE (key :> Undef) @@ cache,
                  invoked |-> TRUE]

\* the closure memoize(fn) returns, called with args on its cache
memoized(fn, cache, args) ==
    LET key == Stringify(Arr(args))
    IN  IF key \in DOMAIN cache
        THEN [outcome |-> Return(cache[key]), cache |-> cache, invoked |-> FALSE]
        ELSE LET res == Apply(fn, args)
             IN  [outcome |-> res,
                  cache |-> IF res.kind = "return"
                            THEN (key :> res.value) @@ cache
                            ELSE cache,
                  invoked |-> TRUE]

-----------------------------------------------------------------------------
(* Program constants *)

DefaultHotPercentile == 95
DefaultMinTimeMs == 1
DefaultHistorySize == 1000
WrapperHistorySize == 1000
AnalysisSize == 100
MedianIndex == 50
MaxIndex == 99
DefaultBins == 10

-----------------------------------------------------------------------------
(* The registry *)

\* new SmartProfiler(o)
SmartProfiler(o) ==
    [stats |-> EmptyMap,
     optimized |-> EmptyMap,
     hotPercentile |-> IF o.hotPercentile = Undefined
                       THEN DefaultHotPercentile ELSE o.hotPercentile,
     minTimeMs |-> IF o.minTimeMs = Undefined
                   THEN DefaultMinTimeMs ELSE o.minTimeMs,
     safeOptimizations |-> o.safeOptimizations,
     historySize |-> IF o.historySize = Undefined
                     THEN DefaultHistorySize ELSE o.historySize,
     histories |-> EmptyMap,          \* name -> the wrapper whose array it is
     customThresholds |-> EmptyMap]

NoOptions ==
    [hotPercentile |-> Undefined, minTimeMs |-> Undefined,
     safeOptimizations |-> TRUE, historySize |-> Undefined]

NoOpts ==
    [memoize |-> FALSE, minTimeMs |-> Undefined, percentile |-> Undefined,
     historySize |-> Undefined]

NoThresholds == [minTimeMs |-> Undefined, percentile |-> Undefined]

\* every entry of the map overwritten by the write (faulty variant of Put)
PutAll(map, k, v) == [x \in DOMAIN map \cup {k} |-> v]

\* the entry of a key written once kept (faulty variant of Put)
PutOnce(map, k, v) == IF k \in DOMAIN map THEN map ELSE (k :> v) @@ map

\* map.set(k, v)
Put(map, k, v) == (k :> v) @@ map

\* profile(fn, name, opts) on registry self of the registries constructed
\* so far
profileOn(registries, self, fn, name, opts) ==
    LET R == registries[self]
        w == Len(wrappers) + 1
        thresholds ==
            IF Or(opts.minTimeMs, Or(opts.percentile, 0)) # 0
            THEN Put(R.customThresholds, name,
                     [minTimeMs |-> opts.minTimeMs,
                      hotPercentile |-> opts.percentile])
            ELSE R.customThresholds
    IN  /\ registry' = [registries EXCEPT
                           ![self].histories = Put(R.histories, name, w),
                           ![self].customThresholds = thresholds]
        /\ wrappers' = Append(wrappers,
               [self |-> self, fn |-> fn, name |-> name, opts |-> opts,
                callTimes |-> <<>>, isOptimized |-> FALSE,
                optimizedFn |-> "fn", callCount |-> 0, history |-> <<>>,
                cache |-> EmptyMap])
        /\ env' = Append(env,
               [lastDt |-> Undefined, switches |-> 0, returns |-> 0,
                throws |-> 0, fnCalls |-> 0, memo |-> EmptyMap,
                stored |-> IF name \in DOMAIN R.customThresholds
                           THEN R.customThresholds[name] ELSE NoThresholds])
        /\ last' = [op |-> "profile", w |-> w, args |-> <<>>,
                    outcome |-> Return(FnValue), invoked |-> FALSE]
        /\ UNCHANGED frames

\* profile(fn, name, opts) on registry self
profile(self, fn, name, opts) == profileOn(registry, self, fn, name, opts)

\* one registry of the module shared by the calls (faulty variant of oneShot)
oneShotShared(fn, fnName, options) == profile(1, fn, fnName, options)

\* index.js profile(fn, fnName, options): new Jache() and profile() on it
oneShot(fn, fnName, options) ==
    LET profiler == Cardinality(DOMAIN registry) + 1
    IN  profileOn(registry @@ (profiler :> SmartProfiler(NoOptions)),
                  profiler, fn, fnName, options)

\* setThresholds(name, thresholds) on registry self
setThresholds(self, name, thresholds) ==
    /\ registry' = [registry EXCEPT
           ![self].customThresholds =
               Put(registry[self].customThresholds, name, thresholds)]
    /\ last' = [op |-> "setThresholds", w |-> 0, args |-> <<>>,
                outcome |-> Return(Undef), invoked |-> FALSE]
    /\ UNCHANGED <<wrappers, env, frames>>

\* getStats() on registry self: one entry per name of the stats map
getStats(self) ==
    {[name |-> n, s |-> registry[self].stats[n]] :
        n \in DOMAIN registry[self].stats}

\* profiler.hotPercentile = value or profiler.minTimeMs = value by the
\* owner of registry self: the fields are plain public properties
assign(self, field, value) ==
    /\ registry' = [registry EXCEPT
           ![self] = IF field = "minTimeMs"
                     THEN [@ EXCEPT !.minTimeMs = value]
                     ELSE [@ EXCEPT !.hotPercentile = value]]
    /\ last' = [op |-> "assign", w |-> 0, args |-> <<Str(field), Num(value)>>,
                outcome |-> Return(Num(value)), invoked |-> FALSE]
    /\ UNCHANGED <<wrappers, env, frames>>

\* profiler.on(event, listener) on registry self: the class defines no
\* method on and extends no other class, so the call of the undefined
\* property is a TypeError and nothing is stored
on(self, event, listener) ==
    /\ self \in DOMAIN registry
    /\ last' = [op |-> "on", w |-> 0, args |-> <<Str(event), listener>>,
                outcome |-> Throw("TypeError"), invoked |-> FALSE]
    /\ UNCHANGED <<registry, wrappers, env, frames>>

-----------------------------------------------------------------------------
(* The wrapper *)

\* the threshold read from the override stored under the wrapper's name
\* (faulty variant of EffectiveMinTime)
EffectiveMinTimeLive(W, R) ==
    IF W.name \in DOMAIN R.customThresholds
    THEN Or(R.customThresholds[W.name].minTimeMs, R.minTimeMs)
    ELSE R.minTimeMs

\* the percentile and the threshold the analysis uses
EffectivePercentile(W, R) == Or(W.opts.percentile, R.hotPercentile)
EffectiveMinTime(W, R) == Or(W.opts.minTimeMs, R.minTimeMs)
EffectiveHistorySize(W, R) == Or(W.opts.historySize, WrapperHistorySize)

\* the index of the hot sample in the sorted samples
HotIndex(len, percentile) == (len * percentile) \div 100

\* the swap made only by a registry whose safeOptimizations is set
\* (faulty variant of ShouldMemoize)
ShouldMemoizeWhenSafe(W, hotTime, minTime) ==
    /\ Gt(hotTime, minTime) /\ W.opts.memoize /\ isPure(W.fn)
    /\ registry[W.self].safeOptimizations

\* the swap without the purity check (faulty variant of ShouldMemoize)
ShouldMemoizeUnchecked(W, hotTime, minTime) ==
    Gt(hotTime, minTime) /\ W.opts.memoize

\* whether the analysis swaps the callee
ShouldMemoize(W, hotTime, minTime) ==
    Gt(hotTime, minTime) /\ W.opts.memoize /\ isPure(W.fn)

\* the histogram and the history of the record taken from the analysis
\* buffer (faulty variant of Analyse)
AnalyseBuffer(callTimes, callCount, history, percentile) ==
    LET sorted == SortAscending(callTimes)
    IN  [median |-> At(sorted, MedianIndex),
         hot |-> At(sorted, HotIndex(Len(sorted), percentile)),
         min |-> At(sorted, 0),
         max |-> At(sorted, MaxIndex),
         count |-> callCount,
         histogram |-> buildHistogram(callTimes, DefaultBins),
         history |-> callTimes]

\* the record with the counter as it was before the call was counted
\* (faulty variant of Analyse)
AnalyseStaleCount(callTimes, callCount, history, percentile) ==
    LET sorted == SortAscending(callTimes)
    IN  [median |-> At(sorted, MedianIndex),
         hot |-> At(sorted, HotIndex(Len(sorted), percentile)),
         min |-> At(sorted, 0),
         max |-> At(sorted, MaxIndex),
         count |-> callCount - 1,
         histogram |-> buildHistogram(history, DefaultBins),
         history |-> history]

\* the statistics taken from the Rolling History instead of the analysis
\* buffer (faulty variant of Analyse)
AnalyseHistory(callTimes, callCount, history, percentile) ==
    LET sorted == SortAscending(history)
    IN  [median |-> At(sorted, MedianIndex),
         hot |-> At(sorted, HotIndex(Len(sorted), percentile)),
         min |-> At(sorted, 0),
         max |-> At(sorted, MaxIndex),
         count |-> callCount,
         histogram |-> buildHistogram(history, DefaultBins),
         history |-> history]

\* the statistics record the analysis publishes
Analyse(callTimes, callCount, history, percentile) ==
    LET sorted == SortAscending(callTimes)
    IN  [median |-> At(sorted, MedianIndex),
         hot |-> At(sorted, HotIndex(Len(sorted), percentile)),
         min |-> At(sorted, 0),
         max |-> At(sorted, MaxIndex),
         count |-> callCount,
         histogram |-> buildHistogram(history, DefaultBins),
         history |-> history]

\* the oldest sample evicted at length >= size already
\* (faulty variant of PushBounded)
PushBoundedInclusive(history, dt, size) ==
    LET pushed == Append(history, dt)
    IN  IF Len(pushed) >= size THEN Tail(pushed) ELSE pushed

\* no sample recorded once the history holds as many as the analysis took
\* (faulty variant of PushBounded)
PushUntilAnalysed(history, dt, size) ==
    IF Len(history) >= AnalysisSize THEN history
    ELSE LET pushed == Append(history, dt)
         IN  IF Len(pushed) > size THEN Tail(pushed) ELSE pushed

\* the sample before the oldest one evicted on overflow
\* (faulty variant of PushBounded)
PushBoundedSecond(history, dt, size) ==
    LET pushed == Append(history, dt)
    IN  IF Len(pushed) > size
        THEN <<pushed[1]>> \o SubSeq(pushed, 3, Len(pushed)) ELSE pushed

\* history.push(dt); if (history.length > size) history.shift()
PushBounded(history, dt, size) ==
    LET pushed == Append(history, dt)
    IN  IF Len(pushed) > size THEN Tail(pushed) ELSE pushed

\* the analysis run by every call from the 100th on
\* (faulty variant of ShouldAnalyse)
ShouldAnalyseFromHundred(isOptimized, callTimes) ==
    ~isOptimized /\ Len(callTimes) >= AnalysisSize

\* the length tested before the sample is pushed (faulty variant of ShouldAnalyse)
ShouldAnalyseBeforePush(isOptimized, callTimes) ==
    ~isOptimized /\ Len(callTimes) + 1 = AnalysisSize

\* whether a call that has pushed its sample runs the analysis
ShouldAnalyse(isOptimized, callTimes) ==
    ~isOptimized /\ Len(callTimes) = AnalysisSize

\* what the memoizing callee did with an argument list so far: how often it
\* invoked fn with it, how often fn returned, how often the cache answered
NoUse == [invoked |-> 0, returned |-> 0, hits |-> 0]
Use(memo, args) == IF args \in DOMAIN memo THEN memo[args] ELSE NoUse

\* the sample recorded in a finally block, so also for a call that throws
\* (faulty variant of wrapper)
wrapperFinally(w, args, dt) ==
    LET W == wrappers[w]
        R == registry[W.self]
        E == env[w]
        call == IF W.optimizedFn = "memoized"
                THEN memoized(W.fn, W.cache, args)
                ELSE [outcome |-> Apply(W.fn, args), cache |-> W.cache,
                      invoked |-> TRUE]
        threw == call.outcome.kind = "throw"
        callTimes == Append(W.callTimes, dt)
        callCount == W.callCount + 1
        history == PushBounded(W.history, dt, EffectiveHistorySize(W, R))
        analysis == ShouldAnalyse(W.isOptimized, callTimes)
        record == Analyse(callTimes, callCount, history,
                          EffectivePercentile(W, R))
        swap == analysis /\
                ShouldMemoize(W, record.hot, EffectiveMinTime(W, R))
    IN  /\ last' = [op |-> "call", w |-> w, args |-> args,
                    outcome |-> call.outcome, invoked |-> call.invoked]
        /\ UNCHANGED frames
        /\ IF threw THEN E.throws < MaxThrows ELSE TRUE
        /\ Len(W.callTimes) < MaxCalls
        /\ env' = [env EXCEPT ![w] =
               [E EXCEPT
                   !.fnCalls = @ + (IF call.invoked THEN 1 ELSE 0),
                   !.lastDt = dt,
                   !.throws = IF threw THEN @ + 1 ELSE @,
                   !.returns = IF threw THEN @ ELSE @ + 1]]
        /\ wrappers' = [wrappers EXCEPT ![w] =
               [W EXCEPT
                   !.callTimes = callTimes,
                   !.callCount = callCount,
                   !.history = history,
                   !.cache = IF swap THEN EmptyMap ELSE call.cache,
                   !.optimizedFn = IF swap THEN "memoized" ELSE @,
                   !.isOptimized = IF swap THEN TRUE ELSE @]]
        /\ registry' = [registry EXCEPT
               ![W.self].stats =
                   IF analysis THEN Put(@, W.name, record) ELSE @,
               ![W.self].optimized =
                   IF swap THEN Put(@, W.name, "memoized") ELSE @]

\* one call wrapper(...args) of wrapper w whose timer measures dt
wrapper(w, args, dt) ==
    LET W == wrappers[w]
        R == registry[W.self]
        E == env[w]
        call == IF W.optimizedFn = "memoized"
                THEN memoized(W.fn, W.cache, args)
                ELSE [outcome |-> Apply(W.fn, args), cache |-> W.cache,
                      invoked |-> TRUE]
        E1 == [E EXCEPT
                  !.fnCalls = @ + (IF call.invoked THEN 1 ELSE 0),
                  !.memo =
                      IF W.optimizedFn = "memoized"
                      THEN Put(@, args,
                               [invoked |-> Use(@, args).invoked
                                    + (IF call.invoked THEN 1 ELSE 0),
                                returned |-> Use(@, args).returned
                                    + (IF call.invoked
                                          /\ call.outcome.kind = "return"
                                       THEN 1 ELSE 0),
                                hits |-> Use(@, args).hits
                                    + (IF call.invoked THEN 0 ELSE 1)])
                      ELSE @]
    IN  /\ last' = [op |-> "call", w |-> w, args |-> args,
                    outcome |-> call.outcome, invoked |-> call.invoked]
        /\ UNCHANGED frames
        /\ IF call.outcome.kind = "throw"
           THEN \* the exception leaves the wrapper before anything is recorded
                /\ E.throws < MaxThrows
                /\ env' = [env EXCEPT ![w] = [E1 EXCEPT !.throws = @ + 1]]
                /\ wrappers' = [wrappers EXCEPT ![w].cache = call.cache]
                /\ UNCHANGED registry
           ELSE LET callTimes == Append(W.callTimes, dt)
                    callCount == W.callCount + 1
                    history == PushBounded(W.history, dt,
                                           EffectiveHistorySize(W, R))
                    analysis == ShouldAnalyse(W.isOptimized, callTimes)
                    record == Analyse(callTimes, callCount, history,
                                      EffectivePercentile(W, R))
                    swap == analysis /\
                            ShouldMemoize(W, record.hot, EffectiveMinTime(W, R))
                IN  /\ Len(W.callTimes) < MaxCalls
                    /\ env' = [env EXCEPT ![w] =
                           [E1 EXCEPT
                               !.lastDt = dt,
                               !.returns = @ + 1,
                               !.switches = IF E.lastDt \in {Undefined, dt}
                                            THEN @ ELSE @ + 1]]
                    /\ wrappers' = [wrappers EXCEPT ![w] =
                           [W EXCEPT
                               !.callTimes = callTimes,
                               !.callCount = callCount,
                               !.history = history,
                               !.cache = IF swap THEN EmptyMap ELSE call.cache,
                               !.optimizedFn = IF swap THEN "memoized" ELSE @,
                               !.isOptimized = IF swap THEN TRUE ELSE @]]
                    /\ registry' = [registry EXCEPT
                           ![W.self].stats =
                               IF analysis THEN Put(@, W.name, record) ELSE @,
                           ![W.self].optimized =
                               IF swap THEN Put(@, W.name, "memoized") ELSE @]

\* wrapper(...args) entered and its callee called: t0 is taken, optimizedFn
\* is read, and when it is the memoizing closure the key is looked up.  The
\* frame stays open while the body of fn runs; pc, acc and spent are the
\* position of that body, the sum of the inner results it holds and the time
\* its inner calls took
enter(w, args) ==
    LET W == wrappers[w]
        key == Stringify(Arr(args))
        hit == W.optimizedFn = "memoized" /\ key \in DOMAIN W.cache
    IN  /\ frames' = Append(frames,
               [w |-> w, args |-> args, callee |-> W.optimizedFn,
                hit |-> hit, value |-> IF hit THEN W.cache[key] ELSE Undef,
                pc |-> 0, acc |-> 0, spent |-> 0])
        /\ env' = [env EXCEPT ![w].fnCalls = @ + (IF hit THEN 0 ELSE 1)]
        /\ last' = [op |-> "enter", w |-> w, args |-> args,
                    outcome |-> Return(Undef), invoked |-> ~hit]
        /\ UNCHANGED <<registry, wrappers>>

\* fibonacciWithMemo with its name bound to its own wrapper
\* (fibonacciWithMemo = profiler.profile(fibonacciWithMemo, ...)): whether
\* the call of frame F has reached a return (the cache answered, n <= 1, or
\* both inner calls are back)
Returning(F) == F.hit \/ F.args[1].n <= 1 \/ F.pc = 2

\* the arguments of the inner call the body makes next: n - 1, then n - 2
Inner(F) == <<Num(F.args[1].n - 1 - F.pc)>>

\* the value the callee of frame F returns
Result(F) ==
    IF F.hit THEN F.value
    ELSE IF F.args[1].n <= 1 THEN F.args[1] ELSE Num(F.acc)

\* nothing recorded by a frame that completes once the callee is swapped
\* (faulty variant of record)
recordUntilSwap(W, R, dt) ==
    LET callTimes == Append(W.callTimes, dt)
        callCount == W.callCount + 1
        history == PushBounded(W.history, dt, EffectiveHistorySize(W, R))
        analysis == ShouldAnalyse(W.isOptimized, callTimes)
        stats == Analyse(callTimes, callCount, history,
                         EffectivePercentile(W, R))
        swap == analysis /\ ShouldMemoize(W, stats.hot, EffectiveMinTime(W, R))
    IN  IF W.isOptimized
        THEN [wrapper |-> W, analysis |-> FALSE, swap |-> FALSE,
              stats |-> stats]
        ELSE [wrapper |-> [W EXCEPT
                               !.callTimes = callTimes,
                               !.callCount = callCount,
                               !.history = history,
                               !.cache = IF swap THEN EmptyMap ELSE @,
                               !.optimizedFn = IF swap THEN "memoized" ELSE @,
                               !.isOptimized = IF swap THEN TRUE ELSE @],
              analysis |-> analysis, swap |-> swap, stats |-> stats]

\* what the wrapper does once its callee has returned, from the push of the
\* sample to the end of the analysis: the closure variables after it,
\* whether the analysis ran and swapped the callee, and the statistics
\* record
record(W, R, dt) ==
    LET callTimes == Append(W.callTimes, dt)
        callCount == W.callCount + 1
        history == PushBounded(W.history, dt, EffectiveHistorySize(W, R))
        analysis == ShouldAnalyse(W.isOptimized, callTimes)
        stats == Analyse(callTimes, callCount, history,
                         EffectivePercentile(W, R))
        swap == analysis /\ ShouldMemoize(W, stats.hot, EffectiveMinTime(W, R))
    IN  [wrapper |-> [W EXCEPT
                          !.callTimes = callTimes,
                          !.callCount = callCount,
                          !.history = history,
                          !.cache = IF swap THEN EmptyMap ELSE @,
                          !.optimizedFn = IF swap THEN "memoized" ELSE @,
                          !.isOptimized = IF swap THEN TRUE ELSE @],
         analysis |-> analysis, swap |-> swap, stats |-> stats]

\* the innermost open frame returns: a memoizing callee that missed stores
\* the result, the wrapper records t1 - t0 (the time of the inner calls and
\* own ms of its own) and analyses, and the result goes to the caller, which
\* is the body of the frame below or the code outside
leave(own) ==
    LET F == frames[Len(frames)]
        W == wrappers[F.w]
        R == registry[W.self]
        res == Result(F)
        dt == F.spent + own
        stored == IF F.callee = "memoized" /\ ~F.hit
                  THEN [W EXCEPT !.cache = Put(@, Stringify(Arr(F.args)), res)]
                  ELSE W
        after == record(stored, R, dt)
        below == SubSeq(frames, 1, Len(frames) - 1)
    IN  /\ wrappers' = [wrappers EXCEPT ![F.w] = after.wrapper]
        /\ registry' = [registry EXCEPT
               ![W.self].stats =
                   IF after.analysis THEN Put(@, W.name, after.stats) ELSE @,
               ![W.self].optimized =
                   IF after.swap THEN Put(@, W.name, "memoized") ELSE @]
        /\ frames' = IF below = <<>> THEN below
                     ELSE [below EXCEPT
                              ![Len(below)].pc = @ + 1,
                              ![Len(below)].acc = @ + res.n,
                              ![Len(below)].spent = @ + dt]
        /\ env' = [env EXCEPT ![F.w].lastDt = dt, ![F.w].returns = @ + 1]
        /\ last' = [op |-> "call", w |-> F.w, args |-> F.args,
                    outcome |-> Return(res), invoked |-> ~F.hit]

\* the durations the timer of wrapper w may show next, when the latency of
\* its callee changes at most MaxSwitches times
Measurable(w) ==
    IF env[w].switches < MaxSwitches \/ env[w].lastDt = Undefined
    THEN Durations ELSE {env[w].lastDt}

\* the same for a callee of constant latency: every call takes as long as
\* the first one did
Steady(w) ==
    IF env[w].lastDt = Undefined THEN Durations ELSE {env[w].lastDt}

-----------------------------------------------------------------------------
(* Specifications *)

Names == {"f"}

Registered(self) == DOMAIN registry[self].histories

InitWith(optionsSet) ==
    /\ \E options \in optionsSet :
           registry = [r \in {1} |-> SmartProfiler(options)]
    /\ wrappers = <<>>
    /\ env = <<>>
    /\ frames = <<>>
    /\ last = [op |-> "new", w |-> 0, args |-> <<>>,
               outcome |-> Return(Undef), invoked |-> FALSE]

\* profile() under a name not used before
Register(fns, optsSet) ==
    \E fn \in fns, name \in Names \ Registered(1), opts \in optsSet :
        profile(1, fn, name, opts)

Configure(thresholdsSet) ==
    \E name \in Names, thresholds \in thresholdsSet :
        setThresholds(1, name, thresholds)

\* calls of the wrappers, under a timer that is steady or not
Invoke(steady) ==
    \E w \in DOMAIN wrappers :
        \E args \in ArgLists(wrappers[w].fn),
           dt \in IF steady THEN Steady(w) ELSE Measurable(w) :
            wrapper(w, args, dt)

(* Spec: one memoizable function under the default registry, with a       *)
(* Rolling History shorter than the analysis buffer; the latency of the    *)
(* callee varies.                                                          *)
Init == InitWith({NoOptions})

Next ==
    \/ Register({"fibonacciWithMemo"},
                {[NoOpts EXCEPT !.memoize = TRUE, !.historySize = 3]})
    \/ Invoke(FALSE)

Spec == Init /\ [][Next]_vars

(* SpecMemo: functions of several argument lists, one of which throws,    *)
(* with and without memoization; constant latency.                         *)
MemoFns == {"typeSafeAdd", "createLargeArray", "fibonacciWithMemo"}

MemoOpts == {[NoOpts EXCEPT !.memoize = m] : m \in BOOLEAN}

InitMemo == InitWith({NoOptions})

NextMemo ==
    \/ Register(MemoFns, MemoOpts)
    \/ Invoke(TRUE)

SpecMemo == InitMemo /\ [][NextMemo]_vars

(* SpecThresholds: registries and profile() options over the threshold    *)
(* settings, setThresholds() at any time; constant latency.               *)
ThresholdOptions ==
    {NoOptions, [NoOptions EXCEPT !.minTimeMs = 2, !.hotPercentile = 0]}

ThresholdFns == {"fibonacciWithMemo", "deadCodeFunction"}

ThresholdOpts ==
    {[NoOpts EXCEPT !.memoize = m, !.minTimeMs = t, !.percentile = p] :
        m \in BOOLEAN, t \in {Undefined, 0, 2}, p \in {Undefined, 0, 100}}

StoredThresholds == {[minTimeMs |-> 2, percentile |-> 50]}

InitThresholds == InitWith(ThresholdOptions)

NextThresholds ==
    \/ Register(ThresholdFns, ThresholdOpts)
    \/ Configure(StoredThresholds)
    \/ Invoke(TRUE)

SpecThresholds == InitThresholds /\ [][NextThresholds]_vars

(* SpecHistory: registries with and without a historySize, profile()     *)
(* with and without one; constant latency.                                 *)
HistoryOptions == {NoOptions, [NoOptions EXCEPT !.historySize = 2]}

HistoryOpts == {NoOpts, [NoOpts EXCEPT !.historySize = 3]}

InitHistory == InitWith(HistoryOptions)

NextHistory ==
    \/ Register({"fibonacciWithMemo"}, HistoryOpts)
    \/ Invoke(TRUE)

SpecHistory == InitHistory /\ [][NextHistory]_vars

(* SpecHistogram: SmartProfiler.buildHistogram(arr, bins) called directly *)
(* on every sample sequence of up to MaxSamples samples and every number   *)
(* of bins up to MaxBins.                                                  *)
SampleSeqs == UNION {[1..n -> HistogramSamples] : n \in 0..MaxSamples}

InitHistogram ==
    /\ registry = [r \in {1} |-> SmartProfiler(NoOptions)]
    /\ wrappers = <<>>
    /\ env = <<>>
    /\ frames = <<>>
    /\ \E arr \in SampleSeqs, bins \in 1..MaxBins :
           last = [op |-> "input", w |-> 0, args |-> <<arr, bins>>,
                   outcome |-> Return(Undef), invoked |-> FALSE]

Histogram ==
    /\ last.op = "input"
    /\ last' = [last EXCEPT
                   !.op = "buildHistogram",
                   !.outcome = Return(buildHistogram(last.args[1], last.args[2]))]
    /\ UNCHANGED <<registry, wrappers, env, frames>>

NextHistogram == Histogram

SpecHistogram == InitHistogram /\ [][NextHistogram]_vars

(* SpecPurity: SmartProfiler.isPure applied to definitions whose text is  *)
(* deadCodeFunction's with the call in its dead branch replaced: an        *)
(* identifier, in one of four places, before one of two return statements. *)
Identifiers ==
    {"console.log", "Math.random", "Date.now", "fetch", "localStorage",
     "setTimeout", "setInterval", "prefetch", "consoleOutput", "Math_random",
     "Math.floor", "Date.parse", "settimeout", "identity"}

Places == {"call", "dead", "comment", "string"}

Bodies == {"return x * 2;", "return x + x - 1;"}

\* the text of the definition with identifier id at place
SourceText(id, place, body) ==
    "function deadCodeFunction(x) { "
    \o (CASE place = "call" -> id \o "('This will never execute');"
          [] place = "dead" ->
                "if (false) { " \o id \o "('This will never execute'); }"
          [] place = "comment" -> "/* " \o id \o " */"
          [] place = "string" -> "const s = '" \o id \o "';")
    \o " " \o body \o " }"

InitPurity ==
    /\ registry = [r \in {1} |-> SmartProfiler(NoOptions)]
    /\ wrappers = <<>>
    /\ env = <<>>
    /\ frames = <<>>
    /\ \E id \in Identifiers, place \in Places, body \in Bodies :
           last = [op |-> "input", w |-> 0, args |-> <<id, place, body>>,
                   outcome |-> Return(Undef), invoked |-> FALSE]

Purity ==
    /\ last.op = "input"
    /\ last' = [last EXCEPT
                   !.op = "isPure",
                   !.outcome = Return(isPureText(
                       SourceText(last.args[1], last.args[2], last.args[3])))]
    /\ UNCHANGED <<registry, wrappers, env, frames>>

NextPurity == Purity

SpecPurity == InitPurity /\ [][NextPurity]_vars

(* SpecDeclared: the options and methods that index.d.ts declares and    *)
(* the examples use beyond those of the class: profile() with a            *)
(* profileAfter option, on() with the three events; constant latency.      *)
LazyOpts == {[profileAfter |-> n] @@ NoOpts : n \in {1, 3}}

Events == {"profile", "threshold", "optimization"}

InitDeclared == InitWith({NoOptions})

Subscribe == \E event \in Events : on(1, event, FnValue)

NextDeclared ==
    \/ Register({"fibonacciWithMemo"}, LazyOpts)
    \/ Subscribe
    \/ Invoke(TRUE)

SpecDeclared == InitDeclared /\ [][NextDeclared]_vars

\* profile() under the names of a list, in the order of the list
RegisterInOrder(names, fns, optsSet) ==
    /\ Len(wrappers) < Len(names)
    /\ \E fn \in fns, opts \in optsSet :
           profile(1, fn, names[Len(wrappers) + 1], opts)

(* SpecTwoNames: two wrappers of one registry under different names,      *)
(* their calls interleaved; constant latency per wrapper.                  *)
TwoNames == <<"f", "g">>

MemoizeOpts == {[NoOpts EXCEPT !.memoize = TRUE]}

InitTwoNames == InitWith({NoOptions})

NextTwoNames ==
    \/ RegisterInOrder(TwoNames, {"fibonacciWithMemo"}, MemoizeOpts)
    \/ Invoke(TRUE)

SpecTwoNames == InitTwoNames /\ [][NextTwoNames]_vars

(* SpecSameName: two wrappers of one registry under the same name, their  *)
(* calls interleaved; constant latency per wrapper.                        *)
SameName == <<"f", "f">>

InitSameName == InitWith({NoOptions})

NextSameName ==
    \/ RegisterInOrder(SameName, {"fibonacciWithMemo"}, MemoizeOpts)
    \/ Invoke(TRUE)

SpecSameName == InitSameName /\ [][NextSameName]_vars

(* SpecOneShot: two wrappers obtained from the one-shot profile() of      *)
(* index.js under the same name, their calls interleaved; constant         *)
(* latency per wrapper.                                                    *)
InitOneShot == InitWith({NoOptions})

QuickStart ==
    /\ Len(wrappers) < Len(SameName)
    /\ \E opts \in MemoizeOpts :
           oneShot("fibonacciWithMemo", SameName[Len(wrappers) + 1], opts)

NextOneShot ==
    \/ QuickStart
    \/ Invoke(TRUE)

SpecOneShot == InitOneShot /\ [][NextOneShot]_vars

(* SpecBounds: three wrappers of one function that differ in their        *)
(* history bound only (1, 3, the default), called in turn so that the      *)
(* n-th call of each measures what the n-th call of the first measured.    *)
BoundNames == <<"f", "g", "h">>

BoundOpts ==
    <<[NoOpts EXCEPT !.memoize = TRUE, !.historySize = 1],
      [NoOpts EXCEPT !.memoize = TRUE, !.historySize = 3],
      [NoOpts EXCEPT !.memoize = TRUE]>>

InitBounds == InitWith({NoOptions})

RegisterEach ==
    /\ Len(wrappers) < Len(BoundNames)
    /\ profile(1, "fibonacciWithMemo", BoundNames[Len(wrappers) + 1],
               BoundOpts[Len(wrappers) + 1])

InvokeInTurn ==
    /\ Len(wrappers) = Len(BoundNames)
    /\ \E w \in DOMAIN wrappers :
           /\ \A v \in 1..(w - 1) : env[v].returns = env[w].returns + 1
           /\ \A v \in (w + 1)..Len(wrappers) : env[v].returns = env[w].returns
           /\ \E args \in ArgLists(wrappers[w].fn),
                 dt \in IF w = 1 THEN Steady(1) ELSE {env[1].lastDt} :
                  wrapper(w, args, dt)

NextBounds ==
    \/ RegisterEach
    \/ InvokeInTurn

SpecBounds == InitBounds /\ [][NextBounds]_vars

(* SpecDefaults: a registry constructed with the defaults whose            *)
(* hotPercentile or minTimeMs is assigned after a wrapper was created;     *)
(* constant latency.                                                       *)
Assignments ==
    {[field |-> "minTimeMs", value |-> 2],
     [field |-> "hotPercentile", value |-> 50]}

InitDefaults == InitWith({NoOptions})

\* an assignment to a default that still has its constructed value, made
\* while a wrapper exists
Reconfigure ==
    /\ Len(wrappers) > 0
    /\ \E a \in Assignments :
           /\ a.field = "minTimeMs" => registry[1].minTimeMs = DefaultMinTimeMs
           /\ a.field = "hotPercentile" =>
                  registry[1].hotPercentile = DefaultHotPercentile
           /\ assign(1, a.field, a.value)

NextDefaults ==
    \/ Register({"fibonacciWithMemo"}, MemoizeOpts)
    \/ Reconfigure
    \/ Invoke(TRUE)

SpecDefaults == InitDefaults /\ [][NextDefaults]_vars

(* SpecSafe: a registry constructed with safeOptimizations true and one   *)
(* constructed with false, put through the same operations: the same       *)
(* profile(), then every call of the wrapper of the first repeated on the  *)
(* wrapper of the second with the same arguments and the same duration.    *)
InitSafe ==
    /\ registry =
           [r \in {1, 2} |->
               SmartProfiler([NoOptions EXCEPT !.safeOptimizations = (r = 1)])]
    /\ wrappers = <<>>
    /\ env = <<>>
    /\ frames = <<>>
    /\ last = [op |-> "new", w |-> 0, args |-> <<>>,
               outcome |-> Return(Undef), invoked |-> FALSE]

RegisterPair ==
    /\ Len(wrappers) < 2
    /\ \E fn \in IF Len(wrappers) = 0 THEN MemoFns ELSE {wrappers[1].fn},
          opts \in IF Len(wrappers) = 0 THEN MemoOpts ELSE {wrappers[1].opts} :
           profile(Len(wrappers) + 1, fn, "f", opts)

\* the wrapper whose turn it is
Turn == IF last.op = "call" /\ last.w = 1 THEN 2 ELSE 1

InvokePair ==
    /\ Len(wrappers) = 2
    /\ \E args \in IF Turn = 2 THEN {last.args} ELSE ArgLists(wrappers[1].fn),
          dt \in IF Turn = 2 THEN {env[1].lastDt} ELSE Steady(1) :
           wrapper(Turn, args, dt)

NextSafe ==
    \/ RegisterPair
    \/ InvokePair

SpecSafe == InitSafe /\ [][NextSafe]_vars

(* SpecAlternating: one wrapper with history bound 1, 3 or the default,   *)
(* whose callee takes a short and a long time in alternation.              *)
AlternatingOpts ==
    {[NoOpts EXCEPT !.memoize = TRUE, !.historySize = k] :
        k \in {Undefined, 1, 3}}

InitAlternating == InitWith({NoOptions})

\* the durations the timer of wrapper w may show next: any first, then
\* never the same twice in a row
Alternating(w) ==
    IF env[w].lastDt = Undefined THEN Durations
    ELSE Durations \ {env[w].lastDt}

InvokeAlternating ==
    \E w \in DOMAIN wrappers :
        \E args \in ArgLists(wrappers[w].fn), dt \in Alternating(w) :
            wrapper(w, args, dt)

NextAlternating ==
    \/ Register({"fibonacciWithMemo"}, AlternatingOpts)
    \/ InvokeAlternating

SpecAlternating == InitAlternating /\ [][NextAlternating]_vars

(* SpecReentrant: fibonacciWithMemo with its name bound to its own         *)
(* wrapper, so that every recursive call of the body is a nested call of   *)
(* the wrapper.  The code outside calls the wrapper with 2 or with 3,      *)
(* always with the same argument, and only when no call is open            *)
(* (JavaScript runs one call stack).  Every frame spends the same time     *)
(* outside its inner calls.                                                *)
ReentrantArgs == {<<Num(2)>>, <<Num(3)>>}

ReentrantOpts == {[NoOpts EXCEPT !.memoize = m] : m \in BOOLEAN}

InitReentrant == InitWith({NoOptions})

\* the time a frame of wrapper w spends outside its inner calls: the first
\* sample recorded is that of a frame without inner calls
Cost(w) ==
    IF wrappers[w].callTimes = <<>> THEN Durations
    ELSE {wrappers[w].callTimes[1]}

\* the wrapper called by the code outside
CallFromOutside ==
    /\ frames = <<>>
    /\ \E w \in DOMAIN wrappers :
           /\ Len(wrappers[w].callTimes) < MaxCalls
           /\ \E args \in IF last.op = "call" THEN {last.args}
                          ELSE ReentrantArgs :
                  enter(w, args)

\* the wrapper called by the body of fn in the innermost open frame
CallFromBody ==
    /\ frames # <<>>
    /\ ~Returning(frames[Len(frames)])
    /\ enter(frames[Len(frames)].w, Inner(frames[Len(frames)]))

\* the innermost open frame returns
ReturnToCaller ==
    /\ frames # <<>>
    /\ Returning(frames[Len(frames)])
    /\ \E own \in Cost(frames[Len(frames)].w) : leave(own)

NextReentrant ==
    \/ Register({"fibonacciWithMemo"}, ReentrantOpts)
    \/ CallFromOutside
    \/ CallFromBody
    \/ ReturnToCaller

SpecReentrant == InitReentrant /\ [][NextReentrant]_vars

-----------------------------------------------------------------------------
(* Vocabulary of the properties *)

\* no other wrapper of the same registry was created under w's name
UniqueName(w) ==
    \A v \in DOMAIN wrappers :
        v # w => \/ wrappers[v].name # wrappers[w].name
                 \/ wrappers[v].self # wrappers[w].self

\* getStats() lists the name of wrapper w
Listed(w) ==
    \E e \in getStats(wrappers[w].self) : e.name = wrappers[w].name

\* the Function Statistics record under the name of wrapper w
Published(w) == registry[wrappers[w].self].stats[wrappers[w].name]

\* the first 100 samples wrapper w recorded, in call order
FirstSamples(w) == SubSeq(wrappers[w].callTimes, 1, 100)

\* v is what stands at zero-based index k when S is put in ascending order
IsOrderStatistic(S, k, v) ==
    /\ Cardinality({i \in DOMAIN S : S[i] < v}) <= k
    /\ k < Cardinality({i \in DOMAIN S : S[i] <= v})

-----------------------------------------------------------------------------
(* Properties *)

\* C1: the statistics of a wrapper are published exactly when its 100th
\* successfully completed call finishes: after fewer than 100 completed calls
\* (however many calls threw) getStats() does not list its name, from the
\* 100th on it does.
C1_PublishedAtHundredthCall ==
    \A w \in DOMAIN wrappers :
        UniqueName(w) => (Listed(w) <=> env[w].returns >= 100)

\* a wrapper whose 100th completed call has just finished, after calls that
\* threw, and that is listed
C1_Witness ==
    \E w \in DOMAIN wrappers :
        /\ UniqueName(w) /\ Listed(w)
        /\ env[w].returns = 100 /\ env[w].throws > 0
        /\ last.op = "call" /\ last.outcome.kind = "return"

\* C2: the published min, median and max are the elements at indices 0, 50
\* and 99 of the ascending sort of the first 100 samples of the wrapper, so
\* min <= median <= max.
C2_MinMedianMaxOfSortedSamples ==
    \A w \in DOMAIN wrappers :
        UniqueName(w) /\ Listed(w) =>
            LET s == Published(w)
                S == FirstSamples(w)
            IN  /\ IsOrderStatistic(S, 0, s.min)
                /\ IsOrderStatistic(S, 50, s.median)
                /\ IsOrderStatistic(S, 99, s.max)
                /\ s.min <= s.median /\ s.median <= s.max

\* statistics published from samples that were recorded in descending order
C2_Witness ==
    \E w \in DOMAIN wrappers :
        /\ UniqueName(w) /\ Listed(w)
        /\ FirstSamples(w)[1] = 2 /\ FirstSamples(w)[100] = 1
        /\ Published(w).min = 1
        /\ Published(w).median = 2
        /\ Published(w).max = 2

\* the swap wrapper w would make for hot value hot and threshold minTime
Gate(w, hot, minTime) ==
    Gt(hot, minTime) /\ wrappers[w].opts.memoize /\ isPure(wrappers[w].fn)

\* the hot value of a wrapper that analysed under percentile p (hundredths)
HotAt(w, p) == At(SortAscending(FirstSamples(w)), HotIndex(100, p))

\* C3: for every effective hotPercentile p in [0,1] the published hot value
\* is the element of the sorted 100 samples at index floor(100*p) clamped to
\* at most 99 (p = 1.0 gives the maximum), and is one of the samples.
C3_HotIsClampedPercentile ==
    \A w \in DOMAIN wrappers :
        UniqueName(w) /\ Listed(w) =>
            LET W == wrappers[w]
                p == EffectivePercentile(W, registry[W.self])
            IN  /\ IsOrderStatistic(FirstSamples(w),
                                    MinOf(HotIndex(100, p), 99),
                                    Published(w).hot)
                /\ \E i \in 1..100 : FirstSamples(w)[i] = Published(w).hot

\* C4: a minTimeMs or percentile given in the profile() options, 0 included,
\* is the threshold or the percentile the analysis uses, whatever the
\* registry's defaults are.
C4_PerCallOverrideWins ==
    \A w \in DOMAIN wrappers :
        UniqueName(w) /\ Listed(w) =>
            LET W == wrappers[w] IN
            /\ W.opts.minTimeMs # Undefined =>
                   (W.isOptimized <=>
                        Gate(w, Published(w).hot, W.opts.minTimeMs))
            /\ W.opts.percentile # Undefined =>
                   Published(w).hot = HotAt(w, W.opts.percentile)

\* C5: an override stored by setThresholds(name, ...) before
\* register(fn, name) without threshold options is the minTimeMs and the
\* percentile the new wrapper's analysis uses.
C5_StoredOverrideUsed ==
    \A w \in DOMAIN wrappers :
        LET W == wrappers[w] IN
        /\ UniqueName(w) /\ Listed(w)
        /\ W.opts.minTimeMs = Undefined /\ W.opts.percentile = Undefined
        /\ env[w].stored # NoThresholds
        => /\ W.isOptimized <=>
                  Gate(w, Published(w).hot, env[w].stored.minTimeMs)
           /\ Published(w).hot = HotAt(w, env[w].stored.percentile)

\* C6: setThresholds changes nothing but the override stored under the
\* name, and a wrapper created before it analyses with the threshold and
\* percentile of its own options and the registry, whatever override is
\* stored by then.
C6_SetThresholdsLeavesWrappersAlone ==
    /\ [][last'.op = "setThresholds" =>
            /\ wrappers' = wrappers
            /\ \A r \in DOMAIN registry :
                   [registry'[r] EXCEPT !.customThresholds =
                        registry[r].customThresholds] = registry[r]
            /\ \E n \in Names : \A r \in DOMAIN registry :
                   \A m \in DOMAIN registry[r].customThresholds \ {n} :
                       /\ m \in DOMAIN registry'[r].customThresholds
                       /\ registry'[r].customThresholds[m] =
                              registry[r].customThresholds[m]]_vars
    /\ [](\A w \in DOMAIN wrappers :
             UniqueName(w) /\ Listed(w) /\ env[w].stored = NoThresholds =>
                 LET W == wrappers[w]
                     R == registry[W.self]
                 IN  /\ W.isOptimized <=>
                            Gate(w, Published(w).hot,
                                 Or(W.opts.minTimeMs, R.minTimeMs))
                     /\ Published(w).hot =
                            HotAt(w, Or(W.opts.percentile, R.hotPercentile)))

\* a wrapper created with no override stored, optimized at a hot value that
\* the override stored later would not have let through
C6_Witness ==
    \E w \in DOMAIN wrappers :
        LET W == wrappers[w]
            R == registry[W.self]
        IN  /\ UniqueName(w) /\ Listed(w) /\ env[w].stored = NoThresholds
            /\ W.opts.minTimeMs = Undefined
            /\ W.name \in DOMAIN R.customThresholds
            /\ W.isOptimized
            /\ ~Gt(Published(w).hot, R.customThresholds[W.name].minTimeMs)
            /\ last.op = "setThresholds"

\* C7: the call that analyses installs the memoizing callee and records
\* the tag 'memoized' under the name exactly if the hot value is greater
\* than the effective minTimeMs, memoize was passed and isPure holds of the
\* original function; otherwise the callee stays the original and no tag is
\* recorded.
C7_SwapIffHotAndMemoizeAndPure ==
    [][\A w \in DOMAIN wrappers :
          env[w].returns = 99 /\ env'[w].returns = 100 =>
              LET W == wrappers'[w]
                  R == registry'[W.self]
              IN  IF Gate(w, R.stats[W.name].hot, EffectiveMinTime(W, R))
                  THEN /\ W.optimizedFn = "memoized"
                       /\ W.isOptimized
                       /\ W.name \in DOMAIN R.optimized
                       /\ R.optimized[W.name] = "memoized"
                  ELSE /\ W.optimizedFn = "fn"
                       /\ ~W.isOptimized
                       /\ R.optimized = registry[W.self].optimized]_vars

\* the analysing call of a wrapper has installed the memoizing callee
C7_Witness ==
    \E w \in DOMAIN wrappers :
        /\ env[w].returns = 100 /\ last.op = "call" /\ last.w = w
        /\ wrappers[w].optimizedFn = "memoized"
        /\ wrappers[w].name \in DOMAIN registry[wrappers[w].self].optimized

\* the argument list in the opposite order
Reverse(args) == [i \in DOMAIN args |-> args[Len(args) + 1 - i]]

Scenario(w) ==
    /\ UniqueName(w)
    /\ wrappers[w].opts.memoize /\ isPure(wrappers[w].fn)
    /\ Cardinality(ArgLists(wrappers[w].fn)) = 1

\* the hot value wrapper w published is above its threshold
Hot(w) ==
    Gt(Published(w).hot,
       EffectiveMinTime(wrappers[w], registry[wrappers[w].self]))

\* C9 as stated: in the scenario, with the hot value above the threshold,
\* statistics are published after the 100th call and the underlying
\* function is not invoked after the 100th call.
C9_NoInvocationAfterHundredthCall ==
    \A w \in DOMAIN wrappers :
        Scenario(w) /\ env[w].returns >= 100 =>
            /\ Listed(w)
            /\ Hot(w) => env[w].fnCalls <= 100

\* C9 as amended: in the scenario, with the hot value above the threshold,
\* statistics are published after the 100th call, the 101st call invokes
\* the underlying function once more (the cache installed by the 100th
\* call is empty) and every call from the 102nd on is served from the
\* cache: the invocation count stays at 101.
C9_OneInvocationAfterHundredthCall ==
    \A w \in DOMAIN wrappers :
        Scenario(w) =>
            /\ env[w].returns < 100 =>
                   ~Listed(w) /\ env[w].fnCalls = env[w].returns
            /\ env[w].returns >= 100 =>
                   /\ Listed(w)
                   /\ Hot(w) => env[w].fnCalls = MinOf(env[w].returns, 101)

\* the scenario two calls after the 101st
C9_Witness ==
    \E w \in DOMAIN wrappers :
        /\ Scenario(w) /\ Listed(w) /\ Hot(w)
        /\ env[w].returns = 103 /\ env[w].fnCalls = 101
        /\ ~last.invoked /\ last.op = "call"

\* C10: argument lists share a cache key only if they are structurally
\* equal, so a call is answered from the cache only with a result that an
\* invocation with its own argument list stored.
C10_KeyDistinguishesArguments ==
    /\ \A w \in DOMAIN wrappers :
           \A a, b \in DOMAIN env[w].memo :
               Stringify(Arr(a)) = Stringify(Arr(b)) => a = b
    /\ last.op = "call" /\ ~last.invoked =>
           Use(env[last.w].memo, last.args).returned >= 1

\* C11: when the active callee throws during a wrapper call, the exception
\* reaches the caller as the callee threw it and the call leaves the
\* profiling state as it was: nothing is appended to the Rolling History or
\* the analysis buffer, the call counter is not incremented, and no
\* statistics or optimization record is written.
C11_ThrowLeavesProfilingStateUnchanged ==
    [][last'.op = "call" /\ last'.outcome.kind = "throw" =>
          LET w == last'.w IN
          /\ last'.outcome = Apply(wrappers[w].fn, last'.args)
          /\ wrappers'[w].history = wrappers[w].history
          /\ wrappers'[w].callTimes = wrappers[w].callTimes
          /\ wrappers'[w].callCount = wrappers[w].callCount
          /\ wrappers' = wrappers
          /\ registry' = registry
          /\ env'[w].returns = env[w].returns]_vars

\* a call of a wrapper that has samples, statistics and the memoizing callee
\* has just thrown
C11_Witness ==
    \E w \in DOMAIN wrappers :
        /\ last.op = "call" /\ last.w = w /\ last.outcome.kind = "throw"
        /\ last.outcome = Throw("RangeError")
        /\ wrappers[w].optimizedFn = "memoized"
        /\ Len(wrappers[w].history) = 100 /\ wrappers[w].callCount = 100
        /\ Listed(w)

\* the history bound configured for wrapper w: the historySize of its
\* profile() options if given, otherwise the one the registry was
\* constructed with (1000 if none was passed)
ConfiguredHistorySize(w) ==
    IF wrappers[w].opts.historySize # Undefined
    THEN wrappers[w].opts.historySize
    ELSE registry[wrappers[w].self].historySize

\* C12: after any sequence of calls the Rolling History of a wrapper holds
\* at most historySize entries, historySize being the per-call option if
\* given, otherwise the value passed to the registry constructor, otherwise
\* 1000.
C12_HistoryWithinConfiguredSize ==
    \A w \in DOMAIN wrappers :
        Len(wrappers[w].history) <= ConfiguredHistorySize(w)

\* the bound k the history of wrapper w is kept to
HistoryBound(w) ==
    IF wrappers[w].opts.historySize \in {Undefined, 0}
    THEN 1000 ELSE wrappers[w].opts.historySize

\* the samples of the last k of the calls of wrapper w that returned
LastSamples(w, k) ==
    LET n == Len(wrappers[w].callTimes)
    IN  SubSeq(wrappers[w].callTimes, n - MinOf(n, k) + 1, n)

\* C13: eviction from the Rolling History is first-in first-out: after n
\* calls that returned, with history bound k, the Rolling History is the
\* samples of the last min(n, k) of them, in call order.
C13_HistoryIsLastSamples ==
    \A w \in DOMAIN wrappers :
        /\ Len(wrappers[w].callTimes) = env[w].returns
        /\ Len(wrappers[w].history) = MinOf(env[w].returns, HistoryBound(w))
        /\ wrappers[w].history = LastSamples(w, HistoryBound(w))

\* a history of bound 3 after more than 3 calls, the evicted sample being
\* different from the latest one
C13_Witness ==
    \E w \in DOMAIN wrappers :
        /\ HistoryBound(w) = 3 /\ env[w].returns > 4
        /\ wrappers[w].callTimes[1] = 1
        /\ wrappers[w].history = <<1, 2, 2>>

RECURSIVE SumSeq(_)
\* the sum of the entries of a sequence of numbers
SumSeq(q) == IF Len(q) = 0 THEN 0 ELSE q[1] + SumSeq(Tail(q))

\* buildHistogram was called and has returned
Built == last.op = "buildHistogram"

\* C14: for every sample sequence and every bins >= 1 the bucket counts
\* buildHistogram returns sum to the number of samples.
C14_BucketCountsSumToSamples ==
    Built => SumSeq(last.outcome.value) = Len(last.args[1])

\* a histogram of several buckets built from samples of several values,
\* more than one of them the maximum
C14_Witness ==
    /\ Built
    /\ last.args = <<<<8, 1, 8, 3>>, 4>>
    /\ last.outcome.value = <<1, 1, 0, 2>>

\* bucket b (zero-based) is where a sample v of an input of minimum min and
\* maximum max > min belongs among bins buckets of equal width
InBucket(v, b, min, max, bins) ==
    IF (v - min) * bins >= (bins - 1) * (max - min)
    THEN b = bins - 1
    ELSE /\ b * (max - min) <= (v - min) * bins
         /\ (v - min) * bins < (b + 1) * (max - min)

\* C15: the shape of the result of buildHistogram: an empty input gives
\* exactly bins zero buckets; an input of equal samples gives exactly one
\* bucket holding the full count; any other input gives exactly bins
\* buckets, every sample v counted in bucket
\* min(bins - 1, floor((v - min) / ((max - min) / bins))), so the maximum in
\* the last bucket and the minimum in the first.
C15_HistogramShape ==
    Built =>
        LET arr == last.args[1]
            bins == last.args[2]
            hist == last.outcome.value
            values == {arr[j] : j \in DOMAIN arr}
        IN  IF arr = <<>>
            THEN Len(hist) = bins /\ \A i \in 1..bins : hist[i] = 0
            ELSE IF Cardinality(values) = 1
            THEN hist = <<Len(arr)>>
            ELSE LET min == CHOOSE v \in values : \A u \in values : v <= u
                     max == CHOOSE v \in values : \A u \in values : v >= u
                 IN  /\ Len(hist) = bins
                     /\ \A i \in 1..bins :
                            hist[i] = Cardinality(
                                {j \in DOMAIN arr :
                                    InBucket(arr[j], i - 1, min, max, bins)})
                     /\ hist[1] >= Cardinality({j \in DOMAIN arr : arr[j] = min})
                     /\ hist[bins] >=
                            Cardinality({j \in DOMAIN arr : arr[j] = max})

\* four different samples in four buckets: the minimum and its neighbour in
\* the first, the maximum in the last, one bucket empty
C15_Witness ==
    /\ Built
    /\ last.args = <<<<1, 2, 8, 5>>, 4>>
    /\ last.outcome.value = <<2, 0, 1, 1>>

\* the identifiers of the model in which a denylisted token appears
WithToken ==
    {"console.log", "Math.random", "Date.now", "fetch", "localStorage",
     "setTimeout", "setInterval", "prefetch"}

\* C16: isPure returns false exactly if a denylisted token (console.,
\* Math.random, Date.now, fetch, localStorage, setTimeout, setInterval)
\* appears somewhere in the text of the definition, be it in a comment, a
\* string or dead code; it returns true for a definition that only does
\* arithmetic.
C16_ImpureIffTokenInText ==
    last.op = "isPure" =>
        /\ last.outcome.value = FALSE <=> last.args[1] \in WithToken
        /\ last.outcome.value \in BOOLEAN

\* isPure has returned false for the text of deadCodeFunction, whose only
\* token is in a branch that never runs
C16_Witness ==
    /\ last.op = "isPure"
    /\ SourceText(last.args[1], last.args[2], last.args[3])
           = FnSource("deadCodeFunction")
    /\ last.outcome.value = FALSE
    /\ ~isPure("deadCodeFunction") /\ isPure("fibonacciWithMemo")

\* C17: lazy activation: under a profileAfter >= 1 given to profile(), the
\* first profileAfter - 1 calls of the wrapper record no sample (the
\* Rolling History stays empty) and publish no statistics (getStats() does
\* not list the function).
C17_NoSampleBeforeActivation ==
    \A w \in DOMAIN wrappers :
        LET n == wrappers[w].opts.profileAfter IN
        n >= 1 /\ env[w].returns + env[w].throws <= n - 1 =>
            /\ wrappers[w].history = <<>>
            /\ ~Listed(w)

\* C18: a subscriber is registered with on('threshold', ...) or
\* on('optimization', ...): the call returns, and the listener it stored is
\* notified within the analysing call, before the wrapper returns, when the
\* hot value exceeds the threshold (threshold) or when the callee is
\* swapped (optimization).
C18_SubscriberRegistered ==
    last.op = "on" /\ last.args[1] \in {Str("threshold"), Str("optimization")}
        => last.outcome.kind = "return"

\* the entry of a map under a key, or that there is none
Entry(map, k) == IF k \in DOMAIN map THEN <<map[k]>> ELSE <<>>

\* C19: with unique names the wrappers of a registry do not interfere: a
\* call of the wrapper registered under one name leaves the statistics
\* entry, the optimization tag, the Rolling History, the call counter, the
\* analysis buffer and the active callee of every other name unchanged.
C19_CallLeavesOtherNamesUnchanged ==
    [][last'.op = "call" =>
          \A v \in DOMAIN wrappers :
              LET V == wrappers[v]
                  A == wrappers[last'.w]
              IN  V.self = A.self /\ V.name # A.name /\ UniqueName(v) =>
                  /\ Entry(registry'[V.self].stats, V.name)
                         = Entry(registry[V.self].stats, V.name)
                  /\ Entry(registry'[V.self].optimized, V.name)
                         = Entry(registry[V.self].optimized, V.name)
                  /\ Entry(registry'[V.self].histories, V.name)
                         = Entry(registry[V.self].histories, V.name)
                  /\ wrappers'[v].history = V.history
                  /\ wrappers'[v].callCount = V.callCount
                  /\ wrappers'[v].callTimes = V.callTimes
                  /\ wrappers'[v].optimizedFn = V.optimizedFn
                  /\ wrappers'[v].cache = V.cache
                  /\ wrappers'[v] = V]_vars

\* the wrapper under f has just analysed and swapped its callee, the
\* wrapper under g having published other statistics before and kept its
\* callee
C19_Witness ==
    /\ Len(wrappers) = 2
    /\ last.op = "call" /\ last.w = 1 /\ env[1].returns = 100
    /\ wrappers[1].optimizedFn = "memoized"
    /\ wrappers[2].optimizedFn = "fn" /\ wrappers[2].callCount > 100
    /\ registry[1].stats["g"].max = 1 /\ registry[1].stats["f"].max = 2
    /\ DOMAIN registry[1].optimized = {"f"}

\* the wrappers created under the name of wrapper w in its registry
SameNamed(w) ==
    {v \in DOMAIN wrappers :
        /\ wrappers[v].name = wrappers[w].name
        /\ wrappers[v].self = wrappers[w].self}

\* the wrapper among a non-empty set of them that was created last
Latest(ws) == CHOOSE v \in ws : \A u \in ws : u <= v

\* C20: registering a name twice is accepted and yields two wrappers with
\* independent call counters, analysis buffers, Rolling Histories and
\* active callees, each analysing after its own 100 calls, while the
\* by-name records of the registry (statistics, optimization tag, history
\* map entry) hold what the wrapper that wrote last wrote.
C20_IndependentWrappersLastWriteWins ==
    /\ [][last'.op = "profile" =>
              /\ last'.outcome = Return(FnValue)
              /\ Len(wrappers') = Len(wrappers) + 1
              /\ \A v \in DOMAIN wrappers : wrappers'[v] = wrappers[v]
              /\ registry'[1].histories[wrappers'[last'.w].name] = last'.w
              /\ registry'[1].stats = registry[1].stats
              /\ registry'[1].optimized = registry[1].optimized]_vars
    /\ [][last'.op = "call" =>
              LET w == last'.w
                  W == wrappers'[w]
                  name == W.name
                  R == registry'[W.self]
              IN  /\ \A v \in DOMAIN wrappers \ {w} : wrappers'[v] = wrappers[v]
                  /\ R.histories = registry[W.self].histories
                  /\ IF env[w].returns = 99 /\ env'[w].returns = 100
                     THEN /\ R.stats[name].count = 100
                          /\ R.stats[name].history = W.history
                          /\ R.stats[name].max = env'[w].lastDt
                          /\ IF W.optimizedFn # wrappers[w].optimizedFn
                             THEN R.optimized[name] = "memoized"
                             ELSE R.optimized = registry[W.self].optimized
                     ELSE /\ R.stats = registry[W.self].stats
                          /\ R.optimized = registry[W.self].optimized
                          /\ W.optimizedFn = wrappers[w].optimizedFn]_vars
    /\ [](\A w \in DOMAIN wrappers :
              /\ wrappers[w].callCount = env[w].returns
              /\ Len(wrappers[w].callTimes) = env[w].returns
              /\ Len(wrappers[w].history)
                     = MinOf(env[w].returns, HistoryBound(w))
              /\ registry[wrappers[w].self].histories[wrappers[w].name]
                     = Latest(SameNamed(w)))

\* two wrappers under f: the first analysed after the second and wrote the
\* statistics the registry holds, the tag is the one the second wrote, and
\* the history map holds the history of the second
C20_Witness ==
    /\ Len(wrappers) = 2 /\ wrappers[1].name = wrappers[2].name
    /\ last.op = "call" /\ last.w = 1 /\ env[1].returns = 100
    /\ env[2].returns > 100
    /\ wrappers[1].optimizedFn = "fn" /\ wrappers[2].optimizedFn = "memoized"
    /\ registry[1].stats["f"].max = 1
    /\ registry[1].optimized["f"] = "memoized"
    /\ registry[1].histories["f"] = 2

\* C21: a published Function Statistics record is never recomputed or
\* changed: under a unique name, from the 100th call that returned on, every
\* field of it (median, hot, min, max, count, histogram, history copy)
\* stays what it was under any further calls, while the live Rolling
\* History goes on changing.
C21_SnapshotNeverChanges ==
    [][\A w \in DOMAIN wrappers :
          UniqueName(w) /\ Listed(w) =>
              LET s == Published(w)
                  t == registry'[wrappers[w].self].stats[wrappers[w].name]
              IN  /\ t.median = s.median /\ t.hot = s.hot
                  /\ t.min = s.min /\ t.max = s.max
                  /\ t.count = s.count /\ t.count = 100
                  /\ t.histogram = s.histogram
                  /\ t.history = s.history
                  /\ t = s]_vars

\* calls after the 100th have replaced the whole live history, and the
\* record still holds the history and the count of the 100th call
C21_Witness ==
    \E w \in DOMAIN wrappers :
        /\ UniqueName(w) /\ Listed(w) /\ env[w].returns = 103
        /\ wrappers[w].history = <<2, 2, 2>>
        /\ Published(w).history = <<1, 1, 1>>
        /\ Published(w).histogram = <<3>>
        /\ Published(w).count = 100 /\ wrappers[w].callCount = 103

\* C22: the wrapper is transparent to calls of a deterministic function:
\* in every state (before the analysis, analysed, optimized) a call
\* wrapper(args) gives what original(args) gives, and a wrapper that is not
\* optimized invokes the original once, with the arguments given, per call.
C22_CallTransparent ==
    last.op = "call" =>
        /\ last.outcome = Apply(wrappers[last.w].fn, last.args)
        /\ wrappers[last.w].optimizedFn = "fn" => last.invoked

\* C23: the one-shot profile(fn, name, options) creates a fresh registry of
\* the default configuration on every call, so two wrappers obtained from
\* it never share statistics, history or optimization records, whatever
\* their names: each registry holds the records of its one wrapper only and
\* a call of one wrapper changes no other registry.
C23_OneShotRegistriesDisjoint ==
    /\ [][last'.op = "profile" =>
              LET w == last'.w
                  W == wrappers'[w]
              IN  /\ W.self \notin DOMAIN registry
                  /\ registry'[W.self] =
                         [SmartProfiler(NoOptions) EXCEPT
                             !.histories = (W.name :> w)]
                  /\ \A r \in DOMAIN registry : registry'[r] = registry[r]]_vars
    /\ [][last'.op = "call" =>
              /\ \A r \in DOMAIN registry \ {wrappers[last'.w].self} :
                     registry'[r] = registry[r]
              /\ \A v \in DOMAIN wrappers \ {last'.w} :
                     wrappers'[v] = wrappers[v]]_vars
    /\ [](\A w \in DOMAIN wrappers :
              LET W == wrappers[w]
                  R == registry[W.self]
              IN  /\ \A v \in DOMAIN wrappers \ {w} : wrappers[v].self # W.self
                  /\ R.histories = (W.name :> w)
                  /\ Listed(w) <=> env[w].returns >= 100
                  /\ Listed(w) => /\ Published(w).count = 100
                                  /\ Published(w).max = env[w].lastDt
                  /\ (W.name \in DOMAIN R.optimized) <=> W.isOptimized)

\* two one-shot wrappers under f, both analysed, with different statistics
\* and only one of them optimized
C23_Witness ==
    /\ Len(wrappers) = 2 /\ wrappers[1].name = wrappers[2].name
    /\ Listed(1) /\ Listed(2)
    /\ Published(1).max = 2 /\ Published(2).max = 1
    /\ wrappers[1].isOptimized /\ ~wrappers[2].isOptimized
    /\ DOMAIN registry[wrappers[2].self].optimized = {}
    /\ last.op = "call" /\ last.w = 2 /\ env[2].returns = 100

\* C24: the analysis buffer is used once and bounded: after any sequence
\* of calls it holds at most 100 samples, and a call after the analysis
\* adds no sample to it.
C24_AnalysisBufferBounded ==
    \A w \in DOMAIN wrappers :
        /\ Len(wrappers[w].callTimes) <= 100
        /\ env[w].returns >= 100 => Len(wrappers[w].callTimes) = 100

\* C25: the active callee of a wrapper changes at most once and only in
\* the call that analyses: the memoizing callee, once installed, is neither
\* replaced nor removed (its cache only gains entries), and a wrapper that
\* was not optimized by its 100th call that returned is not optimized by any
\* later call.
C25_CalleeChangesOnceAtAnalysis ==
    [][\A w \in DOMAIN wrappers :
          LET W == wrappers[w]
              V == wrappers'[w]
          IN  /\ W.optimizedFn = "memoized" =>
                     /\ V.optimizedFn = "memoized" /\ V.isOptimized
                     /\ \A key \in DOMAIN W.cache :
                            key \in DOMAIN V.cache /\ V.cache[key] = W.cache[key]
              /\ V.optimizedFn # W.optimizedFn =>
                     /\ last'.op = "call" /\ last'.w = w
                     /\ env[w].returns = 99 /\ env'[w].returns = 100
                     /\ W.optimizedFn = "fn" /\ V.optimizedFn = "memoized"
              /\ env[w].returns >= 100 => V.optimizedFn = W.optimizedFn]_vars

\* a wrapper whose memoizing callee, installed by the 100th call, has
\* answered from its cache and thrown since, and is still in place
C25_Witness ==
    \E w \in DOMAIN wrappers :
        /\ env[w].returns = 103 /\ env[w].throws > 0
        /\ wrappers[w].optimizedFn = "memoized" /\ wrappers[w].isOptimized
        /\ wrappers[w].cache # EmptyMap
        /\ env[w].fnCalls < env[w].returns + env[w].throws

\* C26: timing and history recording go on in every state: each call that
\* returns, calls after the analysis and calls answered from the cache
\* included, times the active callee, appends one sample, the duration
\* measured, to the Rolling History (evicting the oldest if the bound is
\* passed) and adds one to the call counter.
C26_EveryCallRecorded ==
    [][last'.op = "call" /\ last'.outcome.kind = "return" =>
          LET w == last'.w
              W == wrappers[w]
              V == wrappers'[w]
              dt == env'[w].lastDt
          IN  /\ V.callCount = W.callCount + 1
              /\ V.history = IF Len(W.history) < HistoryBound(w)
                             THEN Append(W.history, dt)
                             ELSE Tail(Append(W.history, dt))
              /\ V.history[Len(V.history)] = dt
              /\ last'.invoked <=>
                     \/ W.optimizedFn = "fn"
                     \/ Stringify(Arr(last'.args)) \notin DOMAIN W.cache]_vars

\* a call after the analysis, answered from the cache, has been counted
\* and its duration appended to the history, as by the wrapper of bound 3,
\* where it has taken the place of the oldest sample
C26_Witness ==
    \E w \in DOMAIN wrappers :
        /\ last.op = "call" /\ last.w = w /\ ~last.invoked
        /\ env[w].returns = 103 /\ wrappers[w].callCount = 103
        /\ wrappers[w].optimizedFn = "memoized"
        /\ Len(wrappers[w].history) = 103
        /\ wrappers[w].history[103] = 2
        /\ \E v \in DOMAIN wrappers :
               HistoryBound(v) = 3 /\ wrappers[v].history = <<2, 2, 2>>

\* C27: the hot-detection decision does not depend on the Rolling History:
\* wrappers that recorded the same 100 samples publish the same median,
\* hot, min and max and take the same optimization decision whatever their
\* history bounds are, bounds below 100 included.
C27_DecisionIndependentOfHistoryBound ==
    \A v, w \in DOMAIN wrappers :
        /\ Listed(v) /\ Listed(w)
        /\ FirstSamples(v) = FirstSamples(w)
        /\ wrappers[v].fn = wrappers[w].fn
        /\ [wrappers[v].opts EXCEPT !.historySize = Undefined]
               = [wrappers[w].opts EXCEPT !.historySize = Undefined]
        => /\ Published(v).median = Published(w).median
           /\ Published(v).hot = Published(w).hot
           /\ Published(v).min = Published(w).min
           /\ Published(v).max = Published(w).max
           /\ wrappers[v].isOptimized = wrappers[w].isOptimized
           /\ wrappers[v].optimizedFn = wrappers[w].optimizedFn

\* the wrappers of bounds 1, 3 and 1000 have analysed the same samples,
\* published histories of 1, 3 and 100 entries and all swapped their callee
C27_Witness ==
    /\ Len(wrappers) = 3 /\ \A w \in 1..3 : Listed(w)
    /\ Len(Published(1).history) = 1
    /\ Len(Published(2).history) = 3
    /\ Len(Published(3).history) = 100
    /\ Published(1).median = 2 /\ Published(3).median = 2
    /\ \A w \in 1..3 : wrappers[w].optimizedFn = "memoized"

\* C28: the parameters of the analysis are fixed when the wrapper is
\* created: a wrapper of a registry constructed with the defaults, created
\* without threshold options, analyses with percentile 0.95 and threshold
\* 1 ms, whatever is assigned to the registry's hotPercentile or minTimeMs
\* between its creation and its 100th call.
C28_ParametersFixedAtWrapTime ==
    \A w \in DOMAIN wrappers :
        UniqueName(w) /\ Listed(w) =>
            /\ wrappers[w].isOptimized
                   <=> Gate(w, Published(w).hot, DefaultMinTimeMs)
            /\ Published(w).hot = HotAt(w, DefaultHotPercentile)

\* C29: the statistics are never computed over too few samples: whenever
\* a statistics record is written, the wrapper that writes it holds exactly
\* 100 samples in its analysis buffer, and, its history bound being >= 1,
\* the histogram of the record is built over at least one sample.
C29_AnalysisOverHundredSamples ==
    [][\A r \in DOMAIN registry :
          registry'[r].stats # registry[r].stats =>
              LET w == last'.w
                  s == registry'[r].stats[wrappers'[w].name]
              IN  /\ last'.op = "call" /\ wrappers'[w].self = r
                  /\ Len(wrappers'[w].callTimes) = 100
                  /\ {s.min, s.median, s.max} \subseteq Durations
                  /\ HistoryBound(w) >= 1 =>
                         /\ Len(s.history) >= 1
                         /\ SumSeq(s.histogram) = Len(s.history)]_vars

\* the wrapper of history bound 1 has just analysed: its record holds the
\* histogram of the one sample left in its history
C29_Witness ==
    /\ Len(wrappers) = 3 /\ last.op = "call" /\ last.w = 1
    /\ HistoryBound(1) = 1 /\ env[1].returns = 100
    /\ Len(wrappers[1].callTimes) = 100
    /\ Published(1).history = <<1>> /\ Published(1).histogram = <<1>>
    /\ ~Listed(2)

\* the fields of a registry other than the flag and the identity of the
\* wrapper its history map refers to
Behaviour(r) ==
    [stats |-> registry[r].stats,
     optimized |-> registry[r].optimized,
     hotPercentile |-> registry[r].hotPercentile,
     minTimeMs |-> registry[r].minTimeMs,
     historySize |-> registry[r].historySize,
     names |-> DOMAIN registry[r].histories,
     customThresholds |-> registry[r].customThresholds]

\* C30: the safeOptimizations flag gates nothing: put through the same
\* operations, a registry constructed with safeOptimizations = false gives
\* the same results, statistics and optimization decisions as one
\* constructed with safeOptimizations = true.
C30_SafeOptimizationsGatesNothing ==
    /\ [][last'.op = "call" /\ last'.w = 2 =>
              /\ last'.outcome = last.outcome
              /\ last'.invoked = last.invoked]_vars
    /\ [](Len(wrappers) = 2 /\ Turn = 1 =>
              /\ registry[1].safeOptimizations /\ ~registry[2].safeOptimizations
              /\ Behaviour(1) = Behaviour(2)
              /\ [wrappers[1] EXCEPT !.self = 2] = wrappers[2]
              /\ getStats(1) = getStats(2))

\* both registries have published the same statistics and swapped the
\* callee of their wrapper, and a call answered from the cache has been
\* repeated on the second
C30_Witness ==
    /\ Len(wrappers) = 2 /\ last.op = "call" /\ last.w = 2 /\ ~last.invoked
    /\ ~registry[2].safeOptimizations
    /\ Listed(1) /\ Listed(2)
    /\ wrappers[2].optimizedFn = "memoized"
    /\ registry[2].optimized = ("f" :> "memoized")

\* C31: the count field of every published statistics record is exactly
\* 100: it counts the calls that returned only, so calls of the wrapper
\* that threw before the analysis are not in it.
C31_CountIsHundred ==
    /\ \A r \in DOMAIN registry :
           \A name \in DOMAIN registry[r].stats :
               registry[r].stats[name].count = 100
    /\ \A w \in DOMAIN wrappers :
           /\ wrappers[w].callCount = env[w].returns
           /\ UniqueName(w) /\ Listed(w) =>
                  Published(w).count = MinOf(env[w].returns, 100)

\* a record just published by the 102nd call of a wrapper, two calls of
\* which threw
C31_Witness ==
    \E w \in DOMAIN wrappers :
        /\ last.op = "call" /\ last.w = w /\ UniqueName(w) /\ Listed(w)
        /\ env[w].returns = 100 /\ env[w].throws = 2
        /\ env[w].fnCalls = 102
        /\ Published(w).count = 100

\* C32: the histogram and the history copy of a published record are taken
\* from the Rolling History as it is when the analysis runs, not from the
\* 100 samples of the analysis buffer: with history bound k the history of
\* the record is the latest min(100, k) samples and the counts of the
\* histogram sum to min(100, k), while min, median, max and hot are taken
\* over all 100 samples.
C32_SnapshotHistoryFromRollingHistory ==
    \A w \in DOMAIN wrappers :
        UniqueName(w) /\ Listed(w) =>
            LET s == Published(w)
                S == FirstSamples(w)
                m == MinOf(100, HistoryBound(w))
            IN  /\ Len(s.history) = m
                /\ s.history = SubSeq(S, 100 - m + 1, 100)
                /\ SumSeq(s.histogram) = m
                /\ IF SeqMin(s.history) = SeqMax(s.history)
                   THEN s.histogram = <<m>>
                   ELSE /\ Len(s.histogram) = DefaultBins
                        /\ s.histogram[1] =
                               Cardinality({i \in DOMAIN s.history :
                                   s.history[i] = SeqMin(s.history)})
                        /\ s.histogram[DefaultBins] =
                               Cardinality({i \in DOMAIN s.history :
                                   s.history[i] = SeqMax(s.history)})
                /\ IsOrderStatistic(S, 0, s.min)
                /\ IsOrderStatistic(S, 50, s.median)
                /\ IsOrderStatistic(S, 99, s.max)
                /\ IsOrderStatistic(S, 95, s.hot)

\* a record of history bound 3: its history is the last three of the 100
\* samples, which are not the first three, its histogram counts them, and
\* its min and max are those of all the samples
C32_Witness ==
    \E w \in DOMAIN wrappers :
        /\ UniqueName(w) /\ Listed(w) /\ HistoryBound(w) = 3
        /\ SubSeq(FirstSamples(w), 1, 3) = <<2, 1, 2>>
        /\ Published(w).history = <<1, 2, 1>>
        /\ Published(w).histogram = <<2, 0, 0, 0, 0, 0, 0, 0, 0, 1>>
        /\ Published(w).min = 1 /\ Published(w).max = 2
        /\ Published(w).median = 2

\* C33: when the body of the wrapped function calls its own wrapper, so that
\* wrapper frames are open inside one another, every frame that returns
\* pushes exactly one sample and counts exactly one call (also a frame that
\* returns after the callee was swapped, whichever callee it was entered
\* with) and nothing else changes the samples, so the call counter equals
\* the number of samples in every state; the statistics are published by
\* the return of the frame that makes the samples 100 and by no other step,
\* and the callee changes at no other step.
C33_ReentrantCallsConsistent ==
    /\ [](\A w \in DOMAIN wrappers :
            LET W == wrappers[w]
            IN  /\ W.callCount = Len(W.callTimes)
                /\ env[w].returns = Len(W.callTimes)
                /\ Listed(w) <=> Len(W.callTimes) >= AnalysisSize
                /\ Listed(w) => Published(w).count = AnalysisSize)
    /\ [][\A w \in DOMAIN wrappers :
            LET W == wrappers[w]
                V == wrappers'[w]
                returns == /\ Len(frames') < Len(frames)
                           /\ frames[Len(frames)].w = w
                hundredth == returns /\ Len(V.callTimes) = AnalysisSize
            IN  /\ returns =>
                       /\ V.callTimes = Append(W.callTimes, env'[w].lastDt)
                       /\ V.callCount = W.callCount + 1
                       /\ V.history = Append(W.history, env'[w].lastDt)
                /\ ~returns =>
                       /\ V.callTimes = W.callTimes
                       /\ V.callCount = W.callCount
                       /\ V.history = W.history
                /\ registry'[W.self].stats # registry[W.self].stats
                       <=> hundredth
                /\ V.optimizedFn # W.optimizedFn => hundredth
                /\ V.isOptimized # W.isOptimized => hundredth
         ]_vars

\* the 100th sample was recorded by an inner frame, the callee was swapped
\* there, and the two frames that returned afterwards (the second inner
\* call, entered with the memoizing callee, and the outer call, entered
\* with fn) recorded samples 101 and 102
C33_Witness ==
    \E w \in DOMAIN wrappers :
        /\ wrappers[w].isOptimized
        /\ Len(wrappers[w].callTimes) = AnalysisSize + 2
        /\ wrappers[w].callCount = AnalysisSize + 2
        /\ frames = <<>>
        /\ last.op = "call" /\ last.args = <<Num(2)>> /\ last.invoked
        /\ DOMAIN wrappers[w].cache = {"[0]"}
        /\ Listed(w) /\ Published(w).count = AnalysisSize

\* C34: a call of the memoizing callee whose key is not in the cache and
\* whose invocation of the underlying function throws hands the exception
\* to the caller and leaves the cache as it was, without an entry for the
\* key; the next call of the wrapper with the same arguments invokes the
\* underlying function again; and an argument list on which the function
\* throws has no entry and was never answered from the cache.
C34_ThrowingMissStoresNothing ==
    /\ [][\A w \in DOMAIN wrappers :
            LET W == wrappers[w]
                key == Stringify(Arr(last'.args))
            IN  /\ /\ last'.op = "call" /\ last'.w = w
                   /\ W.optimizedFn = "memoized"
                   /\ key \notin DOMAIN W.cache
                   /\ Apply(W.fn, last'.args).kind = "throw"
                   => /\ last'.invoked
                      /\ last'.outcome = Apply(W.fn, last'.args)
                      /\ wrappers'[w].cache = W.cache
                      /\ key \notin DOMAIN wrappers'[w].cache
                      /\ env'[w].fnCalls = env[w].fnCalls + 1
                /\ /\ last.op = "call" /\ last.w = w
                   /\ last.outcome.kind = "throw"
                   /\ W.optimizedFn = "memoized"
                   /\ last'.op = "call" /\ last'.w = w
                   /\ last'.args = last.args
                   => /\ last'.invoked
                      /\ env'[w].fnCalls = env[w].fnCalls + 1
         ]_vars
    /\ [](\A w \in DOMAIN wrappers :
            \A args \in DOMAIN env[w].memo :
                Apply(wrappers[w].fn, args).kind = "throw" =>
                    /\ env[w].memo[args].returned = 0
                    /\ env[w].memo[args].hits = 0
                    /\ Stringify(Arr(args)) \notin DOMAIN wrappers[w].cache)

\* createLargeArray(-1) was called twice on the memoizing callee: both
\* calls invoked the function, both threw, and the cache has no entry for
\* the key
C34_Witness ==
    \E w \in DOMAIN wrappers :
        LET a == <<Num(-1)>>
        IN  /\ wrappers[w].optimizedFn = "memoized"
            /\ a \in DOMAIN env[w].memo
            /\ env[w].memo[a] = [invoked |-> 2, returned |-> 0, hits |-> 0]
            /\ last.op = "call" /\ last.w = w /\ last.args = a
            /\ last.invoked /\ last.outcome = Throw("RangeError")
            /\ "[-1]" \notin DOMAIN wrappers[w].cache

====
